---- MODULE Spec2Model ----
(***************************************************************************)
(* ClawAPI: the key vault (keys.enc under .master.key), the selection      *)
(* store (config.json), the sync into the external OpenClaw config and the *)
(* activity log, as implemented by the three front ends clawapi.py,        *)
(* clawapi-linux.py and webui.py, which share the files of one directory.  *)
(***************************************************************************)
EXTENDS Integers, Sequences, FiniteSets, TLC

VARIABLES
    fs,            \* the files: name -> [exists, data, mode]
    activity_log,  \* activity.log: the sequence of lines appended so far
    procs          \* the concurrent processes of ConcSpec: pc and locals;
                   \* in LogSpec, the page of entries the viewer last got

vars == <<fs, activity_log, procs>>

(***************************************************************************)
(* Bounds of the model.                                                    *)
(***************************************************************************)
MaxLog == 1
\* LogSpec: the lines activity.log grows to, the largest limit asked for
MaxLines == 3
MaxLimit == 3

(***************************************************************************)
(* Python / JSON values.  A string is either plain text, or the text that  *)
(* base64.b64encode(Fernet(k).encrypt(p)) returns ("b64"), or the first    *)
(* ten characters of such a text ("cut").  A dict is an insertion-ordered  *)
(* sequence of [key, val] items, as Python dicts and json.load keep it.    *)
(***************************************************************************)
Str(s) == [t |-> "str", s |-> s, k |-> "", o |-> <<>>]
Num(s) == [t |-> "num", s |-> s, k |-> "", o |-> <<>>]
None == [t |-> "null", s |-> "", k |-> "", o |-> <<>>]
Dict(items) == [t |-> "obj", s |-> "", k |-> "", o |-> items]
Raise == [t |-> "raise", s |-> "", k |-> "", o |-> <<>>]
EmptyDict == Dict(<<>>)

Item(key, val) == [key |-> key, val |-> val]

IsDict(v) == v.t = "obj"
IsRaise(v) == v.t = "raise"

\* key in d
Has(d, key) == \E i \in 1..Len(d.o) : d.o[i].key = key
IndexOf(d, key) == CHOOSE i \in 1..Len(d.o) : d.o[i].key = key
\* d[key]
Get(d, key) == d.o[IndexOf(d, key)].val

\* an assignment that always adds an item, also when the key is there
Put_append(d, key, val) == [d EXCEPT !.o = Append(d.o, Item(key, val))]

\* d[key] = val: in place when the key is there, appended otherwise
Put(d, key, val) ==
    IF Has(d, key)
    THEN Dict([d.o EXCEPT ![IndexOf(d, key)].val = val])
    ELSE Dict(Append(d.o, Item(key, val)))
\* del d[key]
Del(d, key) == Dict(SelectSeq(d.o, LAMBDA it : it.key # key))
\* d.get(key, default)
GetOr(d, key, default) == IF Has(d, key) THEN Get(d, key) ELSE default
Keys(d) == {d.o[i].key : i \in 1..Len(d.o)}

(***************************************************************************)
(* Files.  A file's data is a sequence of tokens: a JSON document is "{",  *)
(* one token per top-level item, "}"; the key file is one token of raw     *)
(* bytes.  open(path, 'w') truncates, a write lands at offset 0 of the     *)
(* descriptor and overwrites what is there, token by token.                *)
(***************************************************************************)
MASTER_KEY_FILE == ".master.key"
KEYS_FILE == "keys.enc"
CONFIG_FILE == "config.json"
OPENCLAW_CONFIG == "openclaw.json"
FileNames == {MASTER_KEY_FILE, KEYS_FILE, CONFIG_FILE, OPENCLAW_CONFIG}

LB == [tok |-> "{", key |-> "", val |-> None]
RB == [tok |-> "}", key |-> "", val |-> None]
PairTok(it) == [tok |-> "pair", key |-> it.key, val |-> it.val]
RawTok(bytes) == [tok |-> "raw", key |-> bytes, val |-> None]

NoFile == [exists |-> FALSE, data |-> <<>>, mode |-> "none"]
\* the mode of a file created by open(): 0o666 under the usual umask 022
CreateMode == "0644"

exists(f, name) == f[name].exists

\* open(name, 'w') / Path.write_text / Path.write_bytes: create or truncate
open_w(f, name) ==
    [f EXCEPT ![name] = [exists |-> TRUE, data |-> <<>>,
                         mode |-> IF f[name].exists THEN f[name].mode ELSE CreateMode]]

\* the write of toks through a descriptor opened by open_w, at offset 0
write_at0(f, name, toks) ==
    LET old == f[name].data
        rest == IF Len(old) > Len(toks) THEN SubSeq(old, Len(toks) + 1, Len(old)) ELSE <<>>
    IN [f EXCEPT ![name].data = toks \o rest]

\* os.chmod(name, 0o600)
chmod600(f, name) == [f EXCEPT ![name].mode = "0600"]

\* json.dump / json.dumps of a dict
json_dump(d) == <<LB>> \o [i \in 1..Len(d.o) |-> PairTok(d.o[i])] \o <<RB>>

\* json.load / json.loads of a file's data: the dict, or JSONDecodeError
json_load(data) ==
    IF /\ Len(data) >= 2
       /\ data[1] = LB
       /\ data[Len(data)] = RB
       /\ \A i \in 2..(Len(data) - 1) : data[i].tok = "pair"
    THEN Dict([i \in 1..(Len(data) - 2) |-> Item(data[i + 1].key, data[i + 1].val)])
    ELSE Raise

\* a whole write in one step: open, dump, close
write_json(f, name, d) == write_at0(open_w(f, name), name, json_dump(d))

(***************************************************************************)
(* Python string slices, on plain text.                                    *)
(***************************************************************************)
Min(a, b) == IF a < b THEN a ELSE b
Max(a, b) == IF a > b THEN a ELSE b
\* s[:n]
Prefix(s, n) == SubSeq(s, 1, Min(n, Len(s)))
\* s[-n:]
Suffix(s, n) == SubSeq(s, Max(1, Len(s) - n + 1), Len(s))

(***************************************************************************)
(* The master key and the Fernet encryption.  Fernet.generate_key() draws  *)
(* a random key: the caller passes the key it would draw as `fresh`.       *)
(***************************************************************************)
FernetKeys == {"K1", "K2"}

Result(f, ret) == [fs |-> f, ret |-> ret]

\* Path.read_bytes of the key file: the bytes written, "" for an empty file
read_bytes(f, name) ==
    IF Len(f[name].data) >= 1 /\ f[name].data[1].tok = "raw"
    THEN f[name].data[1].key
    ELSE ""

\* Path.write_bytes(key): open for writing, then write
write_bytes(f, name, bytes) == write_at0(open_w(f, name), name, <<RawTok(bytes)>>)

get_master_key(f, fresh) ==
    IF exists(f, MASTER_KEY_FILE)
    THEN Result(f, read_bytes(f, MASTER_KEY_FILE))
    ELSE Result(chmod600(write_bytes(f, MASTER_KEY_FILE, fresh), MASTER_KEY_FILE), fresh)

\* Fernet(key) raises ValueError unless key is 32 url-safe base64-encoded bytes
FernetKeyOk(key) == key \in FernetKeys

\* base64.b64encode(Fernet(key).encrypt(plain.encode())).decode()
B64Fernet(key, plain) == [t |-> "b64", s |-> plain, k |-> key, o |-> <<>>]

\* Fernet(key).decrypt(base64.b64decode(encrypted.encode())).decode(): the
\* plaintext of a whole token made under the same key; anything else raises
\* (binascii.Error, InvalidToken, AttributeError)
fernet_decrypt(key, encrypted) ==
    IF FernetKeyOk(key) /\ encrypted.t = "b64" /\ encrypted.k = key
    THEN Str(encrypted.s)
    ELSE Raise

\* a vault that keeps the credential as given
encrypt_key_plain(f, fresh, key) == Result(get_master_key(f, fresh).fs, key)

encrypt_key(f, fresh, key) ==
    LET g == get_master_key(f, fresh)
    IN Result(g.fs, IF FernetKeyOk(g.ret) /\ key.t = "str"
                    THEN B64Fernet(g.ret, key.s)
                    ELSE Raise)

decrypt_key(f, fresh, encrypted) ==
    LET g == get_master_key(f, fresh)
    IN Result(g.fs, fernet_decrypt(g.ret, encrypted))

\* encrypted[:10]
Cut10(v) ==
    IF v.t = "b64" THEN [v EXCEPT !.t = "cut"]
    ELSE IF v.t = "str" THEN Str(Prefix(v.s, 10))
    ELSE Raise

(***************************************************************************)
(* The stores of clawapi.py and webui.py: keys.enc holds what the caller   *)
(* hands to save_keys; config.json is read without a guard.                *)
(***************************************************************************)
load_keys(f) ==
    IF ~exists(f, KEYS_FILE) THEN EmptyDict
    ELSE LET v == json_load(f[KEYS_FILE].data)
         IN IF IsRaise(v) THEN EmptyDict ELSE v

save_keys(f, keys) == chmod600(write_json(f, KEYS_FILE, keys), KEYS_FILE)

NewConfig == Dict(<<Item("selected_models", EmptyDict)>>)

\* the dict, or Raise (JSONDecodeError is not caught)
load_config(f) ==
    IF exists(f, CONFIG_FILE) THEN json_load(f[CONFIG_FILE].data) ELSE NewConfig

save_config(f, config) == write_json(f, CONFIG_FILE, config)

(***************************************************************************)
(* The store of clawapi-linux.py: load_keys decrypts every entry and gives *)
(* up on the whole vault when one fails; save_keys encrypts every entry.   *)
(***************************************************************************)
linux_load_keys(f, fresh) ==
    IF ~exists(f, KEYS_FILE) THEN Result(f, EmptyDict)
    ELSE LET data == json_load(f[KEYS_FILE].data)
         IN IF IsRaise(data) \/ Len(data.o) = 0 THEN Result(f, EmptyDict)
            ELSE LET g == get_master_key(f, fresh)
                     dec(i) == decrypt_key(g.fs, fresh, data.o[i].val).ret
                 IN IF \E i \in 1..Len(data.o) : IsRaise(dec(i))
                    THEN Result(g.fs, EmptyDict)
                    ELSE Result(g.fs, Dict([i \in 1..Len(data.o) |->
                                               Item(data.o[i].key, dec(i))]))

\* the file system after save_keys, ret Raise when an encrypt_key raised
linux_save_keys(f, fresh, keys) ==
    IF Len(keys.o) = 0
    THEN Result(chmod600(write_json(f, KEYS_FILE, EmptyDict), KEYS_FILE), None)
    ELSE LET g == get_master_key(f, fresh)
             enc(i) == encrypt_key(g.fs, fresh, keys.o[i].val).ret
         IN IF \E i \in 1..Len(keys.o) : IsRaise(enc(i))
            THEN Result(g.fs, Raise)
            ELSE Result(chmod600(write_json(g.fs, KEYS_FILE,
                                    Dict([i \in 1..Len(keys.o) |->
                                             Item(keys.o[i].key, enc(i))])),
                                 KEYS_FILE), None)

(***************************************************************************)
(* The provider catalogs (the entries the model uses) and the inputs.      *)
(***************************************************************************)
PROVIDERS == {"anthropic", "openai"}
LINUX_PROVIDERS == {"anthropic", "openai"}
WEB_PROVIDERS == {"anthropic", "openai"}

\* PROVIDERS[pid]['name']
ProviderName(pid) ==
    CASE pid = "anthropic" -> "Anthropic"
      [] pid = "openai" -> "OpenAI"
      [] OTHER -> pid

\* PROVIDERS[provider]["default_model"]
DefaultModel(pid) ==
    CASE pid = "anthropic" -> "claude-sonnet-4-6"
      [] pid = "openai" -> "gpt-4o"
      [] OTHER -> ""

\* provider.lower()
Lower(pid) ==
    CASE pid = "OpenAI" -> "openai"
      [] OTHER -> pid

\* level.upper()
Upper(level) ==
    CASE level = "info" -> "INFO"
      [] level = "success" -> "SUCCESS"
      [] OTHER -> level

PidInputs == {"anthropic", "openai", "nope"}
LinuxPidInputs == PidInputs \cup {"OpenAI"}
Creds == {"key123", "sk-ABCDEFGHIJKLMNOP"}
ModelNames == {"claude-sonnet-4-6", "gpt-4o"}
\* a model argument: a name, the empty string, or none given
ModelInputs == {Str(m) : m \in ModelNames} \cup {Str(""), None}
\* the arguments the handlers are run on in SyncSpec
SyncPids == {"anthropic", "nope"}
SyncCreds == {"key123"}
SyncModels == {Str(m) : m \in ModelNames}
\* the keys Fernet.generate_key() may return to a sequential caller
FreshKeys == {"K1"}
Times == {"2026-01-01 10:00:00"}

PyTrue == [t |-> "bool", s |-> "True", k |-> "", o |-> <<>>]
PyFalse == [t |-> "bool", s |-> "False", k |-> "", o |-> <<>>]

\* Python truth of a value
Truthy(v) ==
    CASE v.t = "str" -> v.s # ""
      [] v.t = "obj" -> Len(v.o) > 0
      [] v.t = "null" -> FALSE
      [] v.t = "bool" -> v = PyTrue
      [] OTHER -> TRUE

\* f"{v}"
Text(v) == IF v.t = "null" THEN "None" ELSE v.s

\* a set_model that leaves config.json's selected_models as it found it
SetSelected_none(config, pid, model) == config

(***************************************************************************)
(* The sync into the external config.                                      *)
(***************************************************************************)
\* config["selected_models"][pid] = model, after creating the mapping
SetSelected(config, pid, model) ==
    LET c == IF Has(config, "selected_models") THEN config
             ELSE Put(config, "selected_models", EmptyDict)
    IN Put(c, "selected_models", Put(Get(c, "selected_models"), pid, model))

\* del config["selected_models"][pid] when both are there
DelSelected(config, pid) ==
    IF Has(config, "selected_models") /\ Has(Get(config, "selected_models"), pid)
    THEN Put(config, "selected_models", Del(Get(config, "selected_models"), pid))
    ELSE config

\* a sync that writes a new document instead of merging into the one read
WithModel_fresh(oc, model) == Put(Put(EmptyDict, "defaultModel", model), "model", model)

\* oc['defaultModel'] = model; oc['model'] = model
WithModel(oc, model) == Put(Put(oc, "defaultModel", model), "model", model)

\* an update that creates the external config when it is absent
update_openclaw_model_creating(f, model) ==
    LET config == IF exists(f, OPENCLAW_CONFIG) THEN json_load(f[OPENCLAW_CONFIG].data)
                  ELSE EmptyDict
    IN IF IsRaise(config) THEN Result(f, Raise)
       ELSE Result(write_json(f, OPENCLAW_CONFIG, WithModel(config, model)), PyTrue)

\* webui.py: PyTrue when written, PyFalse when the file is absent, Raise when
\* it does not parse
update_openclaw_model(f, model) ==
    IF exists(f, OPENCLAW_CONFIG)
    THEN LET config == json_load(f[OPENCLAW_CONFIG].data)
         IN IF IsRaise(config) THEN Result(f, Raise)
            ELSE Result(write_json(f, OPENCLAW_CONFIG, WithModel(config, model)), PyTrue)
    ELSE Result(f, PyFalse)

ProviderEntry(provider, model, api_key) ==
    Dict(<<Item("provider", Str(provider)), Item("model", model), Item("apiKey", api_key)>>)

\* a push that writes models.providers anew, holding the pushed entry only
linux_sync_replacing(f, provider, model, api_key) ==
    IF ~exists(f, OPENCLAW_CONFIG) THEN Result(f, PyFalse)
    ELSE LET parsed == json_load(f[OPENCLAW_CONFIG].data)
             config == IF IsRaise(parsed) THEN EmptyDict ELSE parsed
         IN Result(write_json(f, OPENCLAW_CONFIG,
                       Put(config, "models",
                           Put(EmptyDict, "providers",
                               Put(EmptyDict, provider \o ":default",
                                   ProviderEntry(provider, model, api_key))))),
                   PyTrue)

\* clawapi-linux.py: PyTrue when written, PyFalse when the file is absent,
\* Raise when "models" or "providers" is not a mapping
linux_sync_to_openclaw(f, provider, model, api_key) ==
    IF ~exists(f, OPENCLAW_CONFIG) THEN Result(f, PyFalse)
    ELSE LET parsed == json_load(f[OPENCLAW_CONFIG].data)
             config == IF IsRaise(parsed) THEN EmptyDict ELSE parsed
             c1 == IF Has(config, "models") THEN config ELSE Put(config, "models", EmptyDict)
             models == Get(c1, "models")
         IN IF ~IsDict(models) THEN Result(f, Raise)
            ELSE LET m1 == IF Has(models, "providers") THEN models
                           ELSE Put(models, "providers", EmptyDict)
                     providers == Get(m1, "providers")
                 IN IF ~IsDict(providers) THEN Result(f, Raise)
                    ELSE Result(write_json(f, OPENCLAW_CONFIG,
                                   Put(c1, "models",
                                       Put(m1, "providers",
                                           Put(providers, provider \o ":default",
                                               ProviderEntry(provider, model, api_key))))),
                                PyTrue)

(***************************************************************************)
(* The activity log of webui.py.                                           *)
(***************************************************************************)
\* a log opened with 'w': the line written replaces what was there
log_activity_truncating(log, timestamp, message, level) ==
    <<timestamp \o " [" \o Upper(level) \o "] " \o message>>

\* f"{timestamp} [{level.upper()}] {message}\n", appended
log_activity(log, timestamp, message, level) ==
    Append(log, timestamp \o " [" \o Upper(level) \o "] " \o message)

\* what a handler leaves behind: the files, the log, its status, its output
Out(f, log, status, out) == [fs |-> f, log |-> log, status |-> status, out |-> out]

(***************************************************************************)
(* clawapi.py: the handlers of the cross-platform command line.            *)
(***************************************************************************)
add_provider(f, log, fresh, pid, api_key) ==
    IF pid \notin PROVIDERS THEN Out(f, log, "unknown_provider", "")
    ELSE LET keys == load_keys(f)
             e == encrypt_key(f, fresh, api_key)
         IN IF IsRaise(e.ret) THEN Out(e.fs, log, "raise", "")
            ELSE Out(save_keys(e.fs, Put(keys, pid, e.ret)), log, "ok", "")

set_model(f, log, pid, model) ==
    LET config == load_config(f)
    IN IF IsRaise(config) THEN Out(f, log, "raise", "")
       ELSE LET f1 == save_config(f, SetSelected(config, pid, model))
            IN IF exists(f1, OPENCLAW_CONFIG)
               THEN LET oc == json_load(f1[OPENCLAW_CONFIG].data)
                    IN IF IsRaise(oc) THEN Out(f1, log, "sync_failed", "")
                       ELSE Out(write_json(f1, OPENCLAW_CONFIG, WithModel(oc, model)),
                                log, "synced", "")
               ELSE Out(f1, log, "set", "")

\* the text show_key prints after the provider's name, when it gets that far
show_key(f, log, fresh, pid) ==
    LET keys == load_keys(f)
    IN IF ~Has(keys, pid)
       THEN Out(f, log, IF pid \in PROVIDERS THEN "no_key" ELSE "raise", "")
       ELSE IF pid \notin PROVIDERS THEN Out(f, log, "raise", "")
       ELSE LET head == decrypt_key(f, fresh, Cut10(Get(keys, pid)))
            IN IF IsRaise(head.ret) THEN Out(head.fs, log, "raise", "")
               ELSE LET whole == decrypt_key(head.fs, fresh, Get(keys, pid))
                    IN IF IsRaise(whole.ret) THEN Out(whole.fs, log, "raise", "")
                       ELSE Out(whole.fs, log, "ok",
                                head.ret.s \o "..." \o Suffix(whole.ret.s, 4))

remove_provider(f, log, pid) ==
    LET keys == load_keys(f)
    IN IF Has(keys, pid)
       THEN LET f1 == save_keys(f, Del(keys, pid))
                config == load_config(f1)
            IN IF IsRaise(config) THEN Out(f1, log, "raise", "")
               ELSE LET f2 == IF config = DelSelected(config, pid) THEN f1
                              ELSE save_config(f1, DelSelected(config, pid))
                    IN Out(f2, log, IF pid \in PROVIDERS THEN "ok" ELSE "raise", "")
       ELSE Out(f, log, "not_configured", "")

(***************************************************************************)
(* clawapi-linux.py: the handlers of the Linux command line.               *)
(***************************************************************************)
linux_add_key(f, log, fresh, provider, api_key) ==
    LET p == Lower(provider)
    IN IF p \notin LINUX_PROVIDERS THEN Out(f, log, "exit", "")
       ELSE LET l == linux_load_keys(f, fresh)
                sv == linux_save_keys(l.fs, fresh, Put(l.ret, p, api_key))
            IN Out(sv.fs, log, IF IsRaise(sv.ret) THEN "raise" ELSE "ok", "")

\* a set_model that syncs a provider the vault holds no credential for
linux_set_model_unchecked(f, log, fresh, provider, model) ==
    LET p == Lower(provider)
    IN IF p \notin LINUX_PROVIDERS THEN Out(f, log, "exit", "")
       ELSE LET l == linux_load_keys(f, fresh)
                m == IF model = None THEN Str(DefaultModel(p)) ELSE model
                r == linux_sync_to_openclaw(l.fs, p, m, GetOr(l.ret, p, Str("")))
            IN Out(r.fs, log,
                   CASE r.ret = PyTrue -> "synced"
                     [] r.ret = PyFalse -> "not_found"
                     [] OTHER -> "raise",
                   "")

linux_set_model(f, log, fresh, provider, model) ==
    LET p == Lower(provider)
    IN IF p \notin LINUX_PROVIDERS THEN Out(f, log, "exit", "")
       ELSE LET l == linux_load_keys(f, fresh)
            IN IF ~Has(l.ret, p) THEN Out(l.fs, log, "exit", "")
               ELSE LET m == IF model = None THEN Str(DefaultModel(p)) ELSE model
                        r == linux_sync_to_openclaw(l.fs, p, m, Get(l.ret, p))
                    IN Out(r.fs, log,
                           CASE r.ret = PyTrue -> "synced"
                             [] r.ret = PyFalse -> "not_found"
                             [] OTHER -> "raise",
                           "")

linux_remove_key(f, log, fresh, provider) ==
    LET p == Lower(provider)
        l == linux_load_keys(f, fresh)
    IN IF Has(l.ret, p)
       THEN LET sv == linux_save_keys(l.fs, fresh, Del(l.ret, p))
            IN Out(sv.fs, log, IF IsRaise(sv.ret) THEN "raise" ELSE "ok", "")
       ELSE Out(l.fs, log, "no_key", "")

\* key[:8] + "..." + key[-4:] if len(key) > 12 else "***"
masked(key) ==
    IF Len(key) > 12 THEN Prefix(key, 8) \o "..." \o Suffix(key, 4) ELSE "***"

linux_show_key(f, log, fresh, provider) ==
    LET p == Lower(provider)
        l == linux_load_keys(f, fresh)
    IN IF ~Has(l.ret, p) THEN Out(l.fs, log, "no_key", "")
       ELSE Out(l.fs, log, "ok", masked(Get(l.ret, p).s))

(***************************************************************************)
(* webui.py: the handlers of the web console.  log_ok tells whether the    *)
(* append to activity.log succeeds (open(log_file, 'a') can raise).        *)
(***************************************************************************)
\* the handler's end: log_activity, then flash
Logged(f, log, timestamp, log_ok, message, level) ==
    IF log_ok THEN Out(f, log_activity(log, timestamp, message, level), "ok", "")
    ELSE Out(f, log, "raise", "")

web_add_key(f, log, timestamp, log_ok, provider, default_model) ==
    LET keys == load_keys(f)
        config == load_config(f)
    IN IF IsRaise(config) THEN Out(f, log, "raise", "")
       ELSE IF provider \in WEB_PROVIDERS
       THEN LET keys1 == Put(keys, provider, Str("configured"))
                config1 == IF Truthy(default_model)
                           THEN SetSelected(config, provider, default_model)
                           ELSE config
            IN Logged(save_config(save_keys(f, keys1), config1), log, timestamp, log_ok,
                      "Added provider: " \o ProviderName(provider), "success")
       ELSE Out(f, log, "silent", "")

web_remove_key(f, log, timestamp, log_ok, provider) ==
    LET keys == load_keys(f)
        config == load_config(f)
    IN IF IsRaise(config) THEN Out(f, log, "raise", "")
       ELSE Logged(save_config(save_keys(f, Del(keys, provider)), DelSelected(config, provider)),
                   log, timestamp, log_ok,
                   "Removed provider: " \o ProviderName(provider), "info")

web_set_model(f, log, timestamp, log_ok, provider, model) ==
    LET config == load_config(f)
    IN IF IsRaise(config) THEN Out(f, log, "raise", "")
       ELSE LET u == update_openclaw_model(save_config(f, SetSelected(config, provider, model)),
                                           model)
            IN IF IsRaise(u.ret) THEN Out(u.fs, log, "raise", "")
               ELSE IF u.ret = PyTrue
               THEN Logged(u.fs, log, timestamp, log_ok,
                           "Set default model to " \o Text(model) \o " ("
                               \o ProviderName(provider) \o ")", "success")
               ELSE Out(u.fs, log, "flash_error", "")

web_sync_to_openclaw(f, log, timestamp, log_ok) ==
    LET config == load_config(f)
    IN IF IsRaise(config) THEN Out(f, log, "raise", "")
       ELSE LET selected == GetOr(config, "selected_models", EmptyDict)
            IN IF Truthy(selected)
               THEN LET first_model == selected.o[1].val
                        u == update_openclaw_model(f, first_model)
                    IN IF IsRaise(u.ret) THEN Out(u.fs, log, "raise", "")
                       ELSE IF u.ret = PyTrue
                       THEN Logged(u.fs, log, timestamp, log_ok,
                                   "Synced to OpenClaw: " \o Text(first_model), "success")
                       ELSE Out(u.fs, log, "flash_error", "")
               ELSE Out(f, log, "flash_error", "")

reset_all(f, log, timestamp, log_ok) ==
    Logged(save_config(save_keys(f, EmptyDict), NewConfig), log, timestamp, log_ok,
           "Reset all settings", "info")

(***************************************************************************)
(* The handlers as actions: each runs to completion on the shared files.   *)
(***************************************************************************)
FileOf(d) == [exists |-> TRUE, data |-> json_dump(d), mode |-> CreateMode]

\* external configs the OpenClaw side may have left
ExtFoo == Dict(<<Item("foo", Num("1"))>>)
ExtRich ==
    Dict(<<Item("theme", Str("dark")),
           Item("models",
                Dict(<<Item("mode", Str("merge")),
                       Item("providers",
                            Dict(<<Item("openai:default",
                                        ProviderEntry("openai", Str("gpt-4o"),
                                                      Str("old-key")))>>))>>))>>)
ExtGarbage == [exists |-> TRUE, data |-> <<RawTok("not json")>>, mode |-> CreateMode]
ExternalConfigs == {NoFile, FileOf(ExtFoo), FileOf(ExtRich), ExtGarbage}

\* Each action leaves what its handler returns; a handler that appends to the
\* activity log runs while the log is shorter than MaxLog.

CliAdd(pids, creds) ==
    \E pid \in pids, api_key \in creds, fresh \in FreshKeys :
        LET r == add_provider(fs, activity_log, fresh, pid, Str(api_key))
        IN /\ Len(r.log) <= MaxLog
           /\ fs' = r.fs
           /\ activity_log' = r.log
           /\ UNCHANGED procs

CliSet(pids, models) ==
    \E pid \in pids, model \in models :
        LET r == set_model(fs, activity_log, pid, model)
        IN /\ Len(r.log) <= MaxLog
           /\ fs' = r.fs
           /\ activity_log' = r.log
           /\ UNCHANGED procs

CliShow(pids) ==
    \E pid \in pids, fresh \in FreshKeys :
        LET r == show_key(fs, activity_log, fresh, pid)
        IN /\ Len(r.log) <= MaxLog
           /\ fs' = r.fs
           /\ activity_log' = r.log
           /\ UNCHANGED procs

CliRemove(pids) ==
    \E pid \in pids :
        LET r == remove_provider(fs, activity_log, pid)
        IN /\ Len(r.log) <= MaxLog
           /\ fs' = r.fs
           /\ activity_log' = r.log
           /\ UNCHANGED procs

LinuxAdd(pids, creds) ==
    \E provider \in pids, api_key \in creds, fresh \in FreshKeys :
        LET r == linux_add_key(fs, activity_log, fresh, provider, Str(api_key))
        IN /\ Len(r.log) <= MaxLog
           /\ fs' = r.fs
           /\ activity_log' = r.log
           /\ UNCHANGED procs

LinuxSet(pids, models) ==
    \E provider \in pids, model \in models, fresh \in FreshKeys :
        LET r == linux_set_model(fs, activity_log, fresh, provider, model)
        IN /\ Len(r.log) <= MaxLog
           /\ fs' = r.fs
           /\ activity_log' = r.log
           /\ UNCHANGED procs

LinuxShow(pids) ==
    \E provider \in pids, fresh \in FreshKeys :
        LET r == linux_show_key(fs, activity_log, fresh, provider)
        IN /\ Len(r.log) <= MaxLog
           /\ fs' = r.fs
           /\ activity_log' = r.log
           /\ UNCHANGED procs

LinuxRemove(pids) ==
    \E provider \in pids, fresh \in FreshKeys :
        LET r == linux_remove_key(fs, activity_log, fresh, provider)
        IN /\ Len(r.log) <= MaxLog
           /\ fs' = r.fs
           /\ activity_log' = r.log
           /\ UNCHANGED procs

WebAdd(pids, models) ==
    \E provider \in pids, default_model \in models, timestamp \in Times, log_ok \in BOOLEAN :
        LET r == web_add_key(fs, activity_log, timestamp, log_ok, provider, default_model)
        IN /\ Len(r.log) <= MaxLog
           /\ fs' = r.fs
           /\ activity_log' = r.log
           /\ UNCHANGED procs

WebRemove(pids) ==
    \E provider \in pids, timestamp \in Times, log_ok \in BOOLEAN :
        LET r == web_remove_key(fs, activity_log, timestamp, log_ok, provider)
        IN /\ Len(r.log) <= MaxLog
           /\ fs' = r.fs
           /\ activity_log' = r.log
           /\ UNCHANGED procs

WebSet(pids, models) ==
    \E provider \in pids, model \in models, timestamp \in Times, log_ok \in BOOLEAN :
        LET r == web_set_model(fs, activity_log, timestamp, log_ok, provider, model)
        IN /\ Len(r.log) <= MaxLog
           /\ fs' = r.fs
           /\ activity_log' = r.log
           /\ UNCHANGED procs

WebSync ==
    \E timestamp \in Times, log_ok \in BOOLEAN :
        LET r == web_sync_to_openclaw(fs, activity_log, timestamp, log_ok)
        IN /\ Len(r.log) <= MaxLog
           /\ fs' = r.fs
           /\ activity_log' = r.log
           /\ UNCHANGED procs

WebReset ==
    \E timestamp \in Times, log_ok \in BOOLEAN :
        LET r == reset_all(fs, activity_log, timestamp, log_ok)
        IN /\ Len(r.log) <= MaxLog
           /\ fs' = r.fs
           /\ activity_log' = r.log
           /\ UNCHANGED procs

(***************************************************************************)
(* VaultSpec: every handler that reads or writes keys.enc or .master.key,  *)
(* from the three front ends, starting from an empty directory.            *)
(***************************************************************************)
VaultInit ==
    /\ fs = [n \in FileNames |-> NoFile]
    /\ activity_log = <<>>
    /\ procs = <<>>

VaultNext ==
    \/ CliAdd(PidInputs, Creds)
    \/ CliShow(PidInputs)
    \/ CliRemove(PidInputs)
    \/ LinuxAdd(LinuxPidInputs, Creds)
    \/ LinuxShow(LinuxPidInputs)
    \/ LinuxRemove(LinuxPidInputs)
    \/ WebAdd(PidInputs, {Str(""), Str("gpt-4o")})
    \/ WebRemove(PidInputs)
    \/ WebReset

VaultSpec == VaultInit /\ [][VaultNext]_vars

(***************************************************************************)
(* SyncSpec: every handler that writes the selection or the external       *)
(* config, over each external config the OpenClaw side may have left, with *)
(* the vault filled by clawapi-linux.py (whose set needs the credential).  *)
(***************************************************************************)
SyncInit ==
    /\ \E ext \in ExternalConfigs :
          fs = [n \in FileNames |-> IF n = OPENCLAW_CONFIG THEN ext ELSE NoFile]
    /\ activity_log = <<>>
    /\ procs = <<>>

SyncNext ==
    \/ LinuxAdd(LINUX_PROVIDERS, SyncCreds)
    \/ CliSet(SyncPids, SyncModels)
    \/ LinuxSet(LINUX_PROVIDERS, SyncModels \cup {None})
    \/ WebSet(SyncPids, SyncModels)
    \/ WebSync

SyncSpec == SyncInit /\ [][SyncNext]_vars

(***************************************************************************)
(* ConcSpec: two processes on the same directory, step by step.  A process *)
(* runs `clawapi.py add` (add_provider: load_keys, get_master_key inside   *)
(* encrypt_key, save_keys) or reads the vault (load_keys), one file system *)
(* call per step, and may crash between any two steps.                     *)
(***************************************************************************)
Procs == {1, 2}

\* the key Fernet.generate_key() returns in process i: two draws never agree
FreshOf(i) == IF i = 1 THEN "K1" ELSE "K2"
\* the arguments of process i's add
PidOf(i) == IF i = 1 THEN "anthropic" ELSE "openai"
CredOf(i) == IF i = 1 THEN Str("key123") ELSE Str("sk-ABCDEFGHIJKLMNOP")

Idle ==
    [pc |-> "idle", op |-> "", keys |-> EmptyDict, key |-> "", before |-> NoFile,
     wrote |-> EmptyDict, ret |-> None, crashed_at |-> ""]

\* a directory in use: the key file and a vault with one entry
InstalledVault == Dict(<<Item("openai", B64Fernet("K1", "key123"))>>)
Installed ==
    [n \in FileNames |->
        CASE n = MASTER_KEY_FILE ->
                 [exists |-> TRUE, data |-> <<RawTok("K1")>>, mode |-> "0600"]
          [] n = KEYS_FILE ->
                 [exists |-> TRUE, data |-> json_dump(InstalledVault), mode |-> "0600"]
          [] OTHER -> NoFile]

ConcInit ==
    /\ fs \in {[n \in FileNames |-> NoFile], Installed}
    /\ activity_log = <<>>
    /\ procs = [i \in Procs |-> Idle]

Step(i, f, p) ==
    /\ fs' = f
    /\ procs' = [procs EXCEPT ![i] = p]
    /\ UNCHANGED activity_log

\* the process starts an add or a read of the vault
Start(i) ==
    /\ procs[i].pc = "idle"
    /\ \E op \in {"add", "load"} :
          Step(i, fs, [procs[i] EXCEPT !.op = op,
                                       !.before = fs[KEYS_FILE],
                                       !.pc = IF op = "add" THEN "load_keys" ELSE "reading"])

\* add_provider: keys = load_keys()
AddLoadKeys(i) ==
    /\ procs[i].pc = "load_keys"
    /\ Step(i, fs, [procs[i] EXCEPT !.keys = load_keys(fs), !.pc = "key_exists"])

\* get_master_key: if key_file.exists(); else key = Fernet.generate_key()
KeyExists(i) ==
    /\ procs[i].pc = "key_exists"
    /\ Step(i, fs, IF exists(fs, MASTER_KEY_FILE)
                   THEN [procs[i] EXCEPT !.pc = "key_read"]
                   ELSE [procs[i] EXCEPT !.key = FreshOf(i), !.pc = "key_open"])

\* get_master_key: return key_file.read_bytes(); then Fernet(key)
KeyRead(i) ==
    /\ procs[i].pc = "key_read"
    /\ LET key == read_bytes(fs, MASTER_KEY_FILE)
       IN Step(i, fs, [procs[i] EXCEPT !.key = key,
                                       !.pc = IF FernetKeyOk(key) THEN "save_open"
                                              ELSE "raised"])

\* get_master_key: key_file.write_bytes(key), the open
KeyOpen(i) ==
    /\ procs[i].pc = "key_open"
    /\ Step(i, open_w(fs, MASTER_KEY_FILE), [procs[i] EXCEPT !.pc = "key_write"])

\* get_master_key: key_file.write_bytes(key), the write
KeyWrite(i) ==
    /\ procs[i].pc = "key_write"
    /\ Step(i, write_at0(fs, MASTER_KEY_FILE, <<RawTok(procs[i].key)>>),
            [procs[i] EXCEPT !.pc = "key_chmod"])

\* get_master_key: os.chmod(key_file, 0o600); return key
KeyChmod(i) ==
    /\ procs[i].pc = "key_chmod"
    /\ Step(i, chmod600(fs, MASTER_KEY_FILE), [procs[i] EXCEPT !.pc = "save_open"])

\* keys[pid] = encrypt_key(api_key); save_keys: open(KEYS_FILE, 'w')
SaveOpen(i) ==
    /\ procs[i].pc = "save_open"
    /\ Step(i, open_w(fs, KEYS_FILE),
            [procs[i] EXCEPT !.wrote = Put(procs[i].keys, PidOf(i),
                                           B64Fernet(procs[i].key, CredOf(i).s)),
                             !.pc = "save_write"])

\* save_keys: json.dump(keys, f), flushed when the with block closes f
SaveWrite(i) ==
    /\ procs[i].pc = "save_write"
    /\ Step(i, write_at0(fs, KEYS_FILE, json_dump(procs[i].wrote)),
            [procs[i] EXCEPT !.pc = "save_chmod"])

\* save_keys: os.chmod(KEYS_FILE, 0o600)
SaveChmod(i) ==
    /\ procs[i].pc = "save_chmod"
    /\ Step(i, chmod600(fs, KEYS_FILE), [procs[i] EXCEPT !.pc = "done"])

\* a reader: load_keys()
Read(i) ==
    /\ procs[i].pc = "reading"
    /\ Step(i, fs, [procs[i] EXCEPT !.ret = load_keys(fs), !.pc = "done"])

\* the process is killed between two steps
Crash(i) ==
    /\ procs[i].pc \notin {"idle", "done", "raised", "crashed"}
    /\ Step(i, fs, [procs[i] EXCEPT !.crashed_at = procs[i].pc, !.pc = "crashed"])

ConcNext ==
    \E i \in Procs :
        \/ Start(i)
        \/ AddLoadKeys(i)
        \/ KeyExists(i)
        \/ KeyRead(i)
        \/ KeyOpen(i)
        \/ KeyWrite(i)
        \/ KeyChmod(i)
        \/ SaveOpen(i)
        \/ SaveWrite(i)
        \/ SaveChmod(i)
        \/ Read(i)
        \/ Crash(i)

ConcSpec == ConcInit /\ [][ConcNext]_vars

(***************************************************************************)
(* Helpers of the properties.                                              *)
(***************************************************************************)
\* two JSON values with the same fields and the same values, in any order
RECURSIVE JsonEq(_, _)
JsonEq(a, b) ==
    IF a.t = "obj" /\ b.t = "obj"
    THEN Keys(a) = Keys(b) /\ \A key \in Keys(a) : JsonEq(Get(a, key), Get(b, key))
    ELSE a = b

\* a is a substring of b
IsSubstr(a, b) == \E i \in 1..Len(b) : \E j \in i..Len(b) : SubSeq(b, i, j) = a

\* the stored value v shows the credential cred: v is plain text holding it
Reveals(v, cred) == v.t = "str" /\ IsSubstr(cred, v.s)

\* the external config as a handler leaves it in file system f
ExtDoc(f) == json_load(f[OPENCLAW_CONFIG].data)

(***************************************************************************)
(* C1 (VaultSpec).  Round trip: in every reachable state, for every        *)
(* provider and credential, a put that succeeds followed by a get through  *)
(* the same command line returns the credential: `clawapi.py show` gets as *)
(* far as printing it, and clawapi-linux.py reads it back unchanged.       *)
(***************************************************************************)
C1_RoundTrip ==
    \A pid \in PROVIDERS, cred \in Creds, fresh \in FreshKeys :
        /\ LET put == add_provider(fs, activity_log, fresh, pid, Str(cred))
           IN put.status = "ok" =>
                  show_key(put.fs, put.log, fresh, pid).status = "ok"
        /\ LET put == linux_add_key(fs, activity_log, fresh, pid, Str(cred))
               got == linux_load_keys(put.fs, fresh).ret
           IN put.status = "ok" => Has(got, pid) /\ Get(got, pid) = Str(cred)

(***************************************************************************)
(* C2 (ConcSpec).  Concurrent first use of the master key: once both       *)
(* processes have returned from get_master_key, each holds the key that is *)
(* stored in .master.key (so both hold the same key).                      *)
(***************************************************************************)
HasKey(i) == procs[i].op = "add" /\ procs[i].pc \in {"save_open", "save_write", "save_chmod", "done"}

C2_SameMasterKey ==
    (\A i \in Procs : HasKey(i)) =>
        \A i \in Procs : procs[i].key = read_bytes(fs, MASTER_KEY_FILE)

(***************************************************************************)
(* C3 (ConcSpec).  Crash atomicity: when a process running alone crashes   *)
(* at any step before its write of keys.enc has completed, keys.enc is as  *)
(* it was before the operation.                                            *)
(***************************************************************************)
C3_CrashAtomic ==
    \A i \in Procs :
        (/\ procs[i].pc = "crashed"
         /\ procs[i].op = "add"
         /\ procs[i].crashed_at # "save_chmod"
         /\ \A j \in Procs \ {i} : procs[j].pc = "idle")
        => fs[KEYS_FILE] = procs[i].before

(***************************************************************************)
(* C4 (ConcSpec).  Reader isolation: a reader of keys.enc that runs while  *)
(* another process writes it gets the document from before the write or    *)
(* the document written, never an empty or partial one.                    *)
(***************************************************************************)
C4_ReaderIsolation ==
    \A r \in Procs, w \in Procs :
        (/\ procs[r].op = "load" /\ procs[r].pc = "done"
         /\ procs[w].op = "add" /\ procs[w].pc = "done")
        => procs[r].ret \in {procs[w].keys, procs[w].wrote}

(***************************************************************************)
(* C5 (ConcSpec).  Concurrent writers: when both processes have completed  *)
(* their add, keys.enc holds exactly the document one of them wrote.       *)
(***************************************************************************)
C5_NoTornWrite ==
    (\A i \in Procs : procs[i].op = "add" /\ procs[i].pc = "done")
    => \E i \in Procs : fs[KEYS_FILE].data = json_dump(procs[i].wrote)

(***************************************************************************)
(* C6 (VaultSpec).  Resilience to partial corruption: when exactly one     *)
(* entry of a vault of two or more does not decrypt under the master key,  *)
(* reading the vault still yields every other entry with its credential,   *)
(* `show` of a valid entry succeeds, and the undecryptable entry reads as  *)
(* absent without an error.                                                *)
(***************************************************************************)
Undecryptable(f) ==
    LET vault == load_keys(f)
    IN {i \in 1..Len(vault.o) :
           IsRaise(fernet_decrypt(read_bytes(f, MASTER_KEY_FILE), vault.o[i].val))}

C6_PartialCorruption ==
    LET vault == load_keys(fs)
        bad == Undecryptable(fs)
    IN (Cardinality(bad) = 1 /\ Len(vault.o) >= 2) =>
           \A fresh \in FreshKeys, i \in 1..Len(vault.o) :
               LET got == linux_load_keys(fs, fresh).ret
                   pid == vault.o[i].key
               IN IF i \in bad
                  THEN /\ linux_show_key(fs, activity_log, fresh, pid).status = "no_key"
                       /\ show_key(fs, activity_log, fresh, pid).status = "no_key"
                  ELSE /\ Has(got, pid)
                       /\ Get(got, pid) = fernet_decrypt(read_bytes(fs, MASTER_KEY_FILE),
                                                         vault.o[i].val)
                       /\ show_key(fs, activity_log, fresh, pid).status = "ok"

(***************************************************************************)
(* C7 (VaultSpec).  Confidentiality: no value stored in keys.enc is plain  *)
(* text that equals or contains a credential.                              *)
(***************************************************************************)
C7_Confidentiality ==
    \A i \in 1..Len(fs[KEYS_FILE].data), cred \in Creds :
        ~Reveals(fs[KEYS_FILE].data[i].val, cred)

\* the three front ends have written the vault: two credentials put through
\* the command lines and a provider configured in the web console
C7_Witness ==
    LET vault == load_keys(fs)
    IN /\ Len(vault.o) >= 2
       /\ \E i \in 1..Len(vault.o) : vault.o[i].val.t = "b64" /\ vault.o[i].val.s \in Creds
       /\ \E i \in 1..Len(vault.o) : vault.o[i].val = Str("configured")

(***************************************************************************)
(* C8 (SyncSpec).  End-to-end scenario: from the external config           *)
(* {"foo": 1}, put("anthropic", "key123") then the set of the model        *)
(* "claude-sonnet-4-6" and its push, through either command line, leaves   *)
(* foo = 1, model = defaultModel = "claude-sonnet-4-6" and                 *)
(* models.providers["anthropic:default"] = {provider, model, apiKey}, and  *)
(* nothing else.                                                           *)
(***************************************************************************)
C8_Expected ==
    Dict(<<Item("foo", Num("1")),
           Item("model", Str("claude-sonnet-4-6")),
           Item("defaultModel", Str("claude-sonnet-4-6")),
           Item("models",
                Dict(<<Item("providers",
                            Dict(<<Item("anthropic:default",
                                        ProviderEntry("anthropic", Str("claude-sonnet-4-6"),
                                                      Str("key123")))>>))>>))>>)

C8_EndToEnd ==
    (exists(fs, OPENCLAW_CONFIG) /\ ExtDoc(fs) = ExtFoo) =>
        \A fresh \in FreshKeys :
            /\ LET put == linux_add_key(fs, activity_log, fresh, "anthropic", Str("key123"))
                   push == linux_set_model(put.fs, put.log, fresh, "anthropic",
                                           Str("claude-sonnet-4-6"))
               IN JsonEq(ExtDoc(push.fs), C8_Expected)
            /\ LET put == add_provider(fs, activity_log, fresh, "anthropic", Str("key123"))
                   push == set_model(put.fs, put.log, "anthropic", Str("claude-sonnet-4-6"))
               IN JsonEq(ExtDoc(push.fs), C8_Expected)

(***************************************************************************)
(* C9 (SyncSpec).  Whenever a sync push for model m is applied to an       *)
(* existing external config, the written document has defaultModel = m and *)
(* model = m: for the push of clawapi-linux.py, of clawapi.py and of the   *)
(* web console.                                                            *)
(***************************************************************************)
HasModel(doc, m) ==
    /\ IsDict(doc)
    /\ Has(doc, "defaultModel") /\ Get(doc, "defaultModel") = m
    /\ Has(doc, "model") /\ Get(doc, "model") = m

C9_PushSetsBoth ==
    \A m \in SyncModels :
        /\ \A p \in LINUX_PROVIDERS, cred \in SyncCreds :
              LET r == linux_sync_to_openclaw(fs, p, m, Str(cred))
              IN r.ret = PyTrue => HasModel(ExtDoc(r.fs), m)
        /\ \A p \in SyncPids :
              LET r == set_model(fs, activity_log, p, m)
              IN r.status = "synced" => HasModel(ExtDoc(r.fs), m)
        /\ LET r == update_openclaw_model(fs, m)
           IN r.ret = PyTrue => HasModel(ExtDoc(r.fs), m)

(***************************************************************************)
(* C10 (SyncSpec).  Field preservation: for every external config that     *)
(* parses, a sync push for provider p keeps the key and value of every     *)
(* top-level field other than model, defaultModel and models, of every     *)
(* field of models other than providers, and of every entry of             *)
(* models.providers other than "p:default", and adds no field but model,   *)
(* defaultModel, models, models.providers and that entry.                  *)
(***************************************************************************)
\* new keeps every item of old whose key is not in `managed`, adds only such keys
KeepsBut(old, new, managed) ==
    /\ IsDict(new)
    /\ \A key \in Keys(old) \ managed : Has(new, key) /\ Get(new, key) = Get(old, key)
    /\ Keys(new) \ managed \subseteq Keys(old)

Sub(doc, key) == IF IsDict(doc) /\ Has(doc, key) THEN Get(doc, key) ELSE EmptyDict

Preserved(old, new, p) ==
    /\ KeepsBut(old, new, {"model", "defaultModel", "models"})
    /\ Has(old, "models") => Has(new, "models")
    /\ KeepsBut(Sub(old, "models"), Sub(new, "models"), {"providers"})
    /\ Has(Sub(old, "models"), "providers") => Has(Sub(new, "models"), "providers")
    /\ KeepsBut(Sub(Sub(old, "models"), "providers"), Sub(Sub(new, "models"), "providers"),
                {p \o ":default"})

C10_FieldPreservation ==
    (exists(fs, OPENCLAW_CONFIG) /\ IsDict(ExtDoc(fs))) =>
        \A m \in SyncModels :
            /\ \A p \in LINUX_PROVIDERS, cred \in SyncCreds :
                  LET r == linux_sync_to_openclaw(fs, p, m, Str(cred))
                  IN r.ret = PyTrue => Preserved(ExtDoc(fs), ExtDoc(r.fs), p)
            /\ \A p \in SyncPids :
                  LET r == set_model(fs, activity_log, p, m)
                  IN r.status = "synced" => Preserved(ExtDoc(fs), ExtDoc(r.fs), p)
            /\ LET r == update_openclaw_model(fs, m)
               IN r.ret = PyTrue => \A p \in SyncPids : Preserved(ExtDoc(fs), ExtDoc(r.fs), p)

\* pushes of both kinds have been applied to the config with theme, models.mode
\* and the sibling entry "openai:default", and all three are as they were
C10_Witness ==
    /\ exists(fs, OPENCLAW_CONFIG) /\ IsDict(ExtDoc(fs))
    /\ Has(ExtDoc(fs), "model")
    /\ Has(ExtDoc(fs), "theme") /\ Get(ExtDoc(fs), "theme") = Str("dark")
    /\ Has(Sub(Sub(ExtDoc(fs), "models"), "providers"), "anthropic:default")
    /\ Sub(Sub(Sub(ExtDoc(fs), "models"), "providers"), "openai:default")
          = ProviderEntry("openai", Str("gpt-4o"), Str("old-key"))
    /\ Sub(ExtDoc(fs), "models") # EmptyDict /\ Get(Sub(ExtDoc(fs), "models"), "mode") = Str("merge")

(***************************************************************************)
(* C11 (SyncSpec).  A push of clawapi-linux.py with a credential for       *)
(* provider p, applied to an existing external config, leaves              *)
(* models.providers["p:default"] = {provider: p, model, apiKey}, creates   *)
(* models and models.providers when they are absent, keeps every sibling   *)
(* entry as it was and adds no other entry.                                *)
(***************************************************************************)
\* models.providers of a document, the empty mapping when there is none
ProvidersOf(doc) == Sub(Sub(doc, "models"), "providers")

C11_UpsertOnlyOwnEntry ==
    \A p \in LINUX_PROVIDERS, m \in SyncModels, cred \in SyncCreds :
        LET r == linux_sync_to_openclaw(fs, p, m, Str(cred))
            old == ProvidersOf(ExtDoc(fs))
            new == ProvidersOf(ExtDoc(r.fs))
            own == p \o ":default"
        IN r.ret = PyTrue =>
              /\ Has(ExtDoc(r.fs), "models") /\ Has(Get(ExtDoc(r.fs), "models"), "providers")
              /\ Has(new, own)
              /\ Get(Get(new, own), "provider") = Str(p)
              /\ Get(Get(new, own), "model") = m
              /\ Get(Get(new, own), "apiKey") = Str(cred)
              /\ Keys(Get(new, own)) = {"provider", "model", "apiKey"}
              /\ Keys(new) = Keys(old) \cup {own}
              /\ \A q \in Keys(old) \ {own} : Get(new, q) = Get(old, q)

\* the push for anthropic has been written next to the sibling entry of openai,
\* which is as it was
C11_Witness ==
    /\ exists(fs, OPENCLAW_CONFIG) /\ IsDict(ExtDoc(fs))
    /\ Keys(ProvidersOf(ExtDoc(fs))) = {"openai:default", "anthropic:default"}
    /\ Get(Get(ProvidersOf(ExtDoc(fs)), "anthropic:default"), "apiKey") = Str("key123")
    /\ Get(Get(ProvidersOf(ExtDoc(fs)), "openai:default"), "apiKey") = Str("old-key")

(***************************************************************************)
(* C12 (SyncSpec).  Idempotence of sync: for every external config and     *)
(* every provider, model and credential, the same push applied a second    *)
(* time leaves the external config file exactly as the first push left it  *)
(* (so no entry of models.providers is duplicated or dropped): for the     *)
(* push of clawapi-linux.py, of clawapi.py and of the web console.         *)
(***************************************************************************)
C12_SyncIdempotent ==
    \A m \in SyncModels :
        /\ \A p \in LINUX_PROVIDERS, cred \in SyncCreds :
              LET once == linux_sync_to_openclaw(fs, p, m, Str(cred))
                  twice == linux_sync_to_openclaw(once.fs, p, m, Str(cred))
              IN twice.fs = once.fs /\ twice.ret = once.ret
        /\ \A p \in SyncPids :
              LET once == set_model(fs, activity_log, p, m)
                  twice == set_model(once.fs, once.log, p, m)
              IN twice.fs = once.fs /\ twice.status = once.status
        /\ LET once == update_openclaw_model(fs, m)
               twice == update_openclaw_model(once.fs, m)
           IN twice.fs = once.fs /\ twice.ret = once.ret

\* the external config, holding the sibling entry of openai, is what a push
\* of each kind has just written: pushing the same again changes nothing
C12_Witness ==
    /\ exists(fs, OPENCLAW_CONFIG) /\ IsDict(ExtDoc(fs))
    /\ Has(ProvidersOf(ExtDoc(fs)), "openai:default")
    /\ \E m \in SyncModels :
          /\ linux_sync_to_openclaw(fs, "anthropic", m, Str("key123")).ret = PyTrue
          /\ linux_sync_to_openclaw(fs, "anthropic", m, Str("key123")).fs = fs
          /\ update_openclaw_model(fs, m).ret = PyTrue
          /\ update_openclaw_model(fs, m).fs = fs

(***************************************************************************)
(* C13 (SyncSpec).  When the external config file does not exist, a push   *)
(* does not create it, raises nothing and tells the caller that nothing    *)
(* was synced: sync_to_openclaw of clawapi-linux.py returns False after    *)
(* its "not found" message, update_openclaw_model returns False, the set   *)
(* model and sync handlers of the web console flash their error message,   *)
(* and clawapi.py prints the message without the "synced" part.            *)
(***************************************************************************)
Selected(f) == GetOr(load_config(f), "selected_models", EmptyDict)

WithEmptyExt(f) == [f EXCEPT ![OPENCLAW_CONFIG] = FileOf(EmptyDict)]

C14_UnparsableSurfaced ==
    (exists(fs, OPENCLAW_CONFIG) /\ IsRaise(ExtDoc(fs))) =>
        \A m \in SyncModels :
            /\ \A p \in LINUX_PROVIDERS, cred \in SyncCreds :
                  LET bad == linux_sync_to_openclaw(fs, p, m, Str(cred))
                      clean == linux_sync_to_openclaw(WithEmptyExt(fs), p, m, Str(cred))
                  IN bad.fs = clean.fs /\ bad.ret # clean.ret
            /\ \A p \in SyncPids :
                  LET bad == set_model(fs, activity_log, p, m)
                      clean == set_model(WithEmptyExt(fs), activity_log, p, m)
                  IN bad.fs = clean.fs /\ bad.status # clean.status

(***************************************************************************)
(* C15 (SyncSpec).  A set model with an empty or absent model name is      *)
(* rejected: the handler reports an error and leaves every file (so        *)
(* config.json and the external config) as it was.  The model name is ""   *)
(* for clawapi.py, "" or absent (None) for clawapi-linux.py and for the    *)
(* form of the web console.                                                *)
(***************************************************************************)
NoModel == {Str(""), None}

C15_EmptyModelRejected ==
    \A t \in Times, fresh \in FreshKeys :
        /\ \A p \in SyncPids :
              LET r == set_model(fs, activity_log, p, Str(""))
              IN r.fs = fs /\ r.status \notin {"set", "synced", "sync_failed"}
        /\ \A p \in SyncPids, m \in NoModel :
              LET r == web_set_model(fs, activity_log, t, TRUE, p, m)
              IN r.fs = fs /\ r.status \notin {"ok", "flash_error"}
        /\ \A p \in LINUX_PROVIDERS, m \in NoModel :
              LET r == linux_set_model(fs, activity_log, fresh, p, m)
              IN r.fs = fs /\ r.status \notin {"synced", "not_found"}

(***************************************************************************)
(* StoreSpec: the handlers that read or write keys.enc, config.json and    *)
(* .master.key, started on a data directory as an earlier run, another     *)
(* tool or an interrupted write may have left it: config.json holding a    *)
(* top-level key next to selected_models, a store that is not JSON, a      *)
(* vault with one entry, a master key file that is there with its key or   *)
(* truncated (as a writer stopped between open and write leaves it).       *)
(***************************************************************************)
Malformed == [exists |-> TRUE, data |-> <<RawTok("not json")>>, mode |-> CreateMode]
KeyFile(key) == [exists |-> TRUE, data |-> <<RawTok(key)>>, mode |-> "0600"]
TruncatedKeyFile == [exists |-> TRUE, data |-> <<>>, mode |-> "0600"]

ConfigWithTheme ==
    Dict(<<Item("theme", Str("dark")),
           Item("selected_models", Dict(<<Item("openai", Str("gpt-4o"))>>))>>)

StorePids == {"anthropic", "openai"}
StoreCreds == {"key123"}
StoreModels == {Str("gpt-4o")}

StoreInit ==
    /\ \E key \in {NoFile, KeyFile("K1"), TruncatedKeyFile},
          vault \in {NoFile, Malformed, Installed[KEYS_FILE]},
          config \in {NoFile, FileOf(ConfigWithTheme), Malformed} :
            /\ vault = Installed[KEYS_FILE] => key # NoFile
            /\ fs = [n \in FileNames |->
                     CASE n = MASTER_KEY_FILE -> key
                       [] n = KEYS_FILE -> vault
                       [] n = CONFIG_FILE -> config
                       [] OTHER -> NoFile]
    /\ activity_log = <<>>
    /\ procs = <<>>

StoreNext ==
    \/ CliAdd(StorePids, StoreCreds)
    \/ CliSet(StorePids, StoreModels)
    \/ CliShow(StorePids)
    \/ CliRemove(StorePids)
    \/ LinuxAdd(StorePids, StoreCreds)
    \/ LinuxShow(StorePids)
    \/ LinuxRemove(StorePids)
    \/ WebAdd(StorePids, StoreModels)
    \/ WebRemove(StorePids)
    \/ WebSet(StorePids, StoreModels)
    \/ WebReset

StoreSpec == StoreInit /\ [][StoreNext]_vars

(***************************************************************************)
(* C16 (StoreSpec).  Every handler that writes config.json (set model,     *)
(* remove provider, add through the web console, reset) keeps the key and  *)
(* value of every top-level key other than selected_models that the file   *)
(* held before the write.                                                  *)
(***************************************************************************)
KeepsTopLevel(before, after) ==
    (exists(before, CONFIG_FILE) /\ IsDict(load_config(before))) =>
        /\ IsDict(load_config(after))
        /\ KeepsBut(load_config(before), load_config(after), {"selected_models"})

C16_TopLevelKeysKept ==
    \A p \in StorePids, m \in StoreModels, t \in Times :
        /\ KeepsTopLevel(fs, set_model(fs, activity_log, p, m).fs)
        /\ KeepsTopLevel(fs, remove_provider(fs, activity_log, p).fs)
        /\ KeepsTopLevel(fs, web_add_key(fs, activity_log, t, TRUE, p, m).fs)
        /\ KeepsTopLevel(fs, web_remove_key(fs, activity_log, t, TRUE, p).fs)
        /\ KeepsTopLevel(fs, web_set_model(fs, activity_log, t, TRUE, p, m).fs)
        /\ KeepsTopLevel(fs, reset_all(fs, activity_log, t, TRUE).fs)

(***************************************************************************)
(* C17 (VaultSpec).  Vault remove(id), through each front end: afterwards  *)
(* the identifiers in keys.enc are those from before without id (so the    *)
(* vault is unchanged when id was not there), get(id) reports no key, and  *)
(* every other entry yields the credential it yielded before.              *)
(***************************************************************************)
\* what a stored value decrypts to under the key in .master.key
Credential(f, v) == fernet_decrypt(read_bytes(f, MASTER_KEY_FILE), v)

Removed(before, after, id) ==
    LET old == load_keys(before)
        new == load_keys(after)
    IN /\ Keys(new) = Keys(old) \ {id}
       /\ \A q \in Keys(new) : Credential(after, Get(new, q)) = Credential(before, Get(old, q))

C17_Remove ==
    \A t \in Times, fresh \in FreshKeys :
        /\ \A id \in PROVIDERS :
              LET r == remove_provider(fs, activity_log, id)
              IN /\ Removed(fs, r.fs, id)
                 /\ show_key(r.fs, r.log, fresh, id).status = "no_key"
        /\ \A id \in PidInputs :
              Removed(fs, web_remove_key(fs, activity_log, t, TRUE, id).fs, id)
        /\ \A id \in LinuxPidInputs :
              LET r == linux_remove_key(fs, activity_log, fresh, id)
              IN /\ Removed(fs, r.fs, Lower(id))
                 /\ linux_show_key(r.fs, r.log, fresh, id).status = "no_key"

(***************************************************************************)
(* C18 (StoreSpec).  Once .master.key exists, get_master_key returns its   *)
(* content and writes nothing, and no handler of any front end changes the *)
(* file; when the file is there but holds no usable key, every vault       *)
(* operation that needs the key (put, and get of a stored identifier)      *)
(* fails instead of going on.                                              *)
(***************************************************************************)
KeyFileKept(after) == after[MASTER_KEY_FILE] = fs[MASTER_KEY_FILE]

C18_MasterKeyStable ==
    exists(fs, MASTER_KEY_FILE) =>
        \A fresh \in FernetKeys, t \in Times, p \in StorePids :
            /\ get_master_key(fs, fresh) = Result(fs, read_bytes(fs, MASTER_KEY_FILE))
            /\ \A cred \in StoreCreds :
                  /\ KeyFileKept(add_provider(fs, activity_log, fresh, p, Str(cred)).fs)
                  /\ KeyFileKept(linux_add_key(fs, activity_log, fresh, p, Str(cred)).fs)
            /\ KeyFileKept(show_key(fs, activity_log, fresh, p).fs)
            /\ KeyFileKept(remove_provider(fs, activity_log, p).fs)
            /\ KeyFileKept(linux_show_key(fs, activity_log, fresh, p).fs)
            /\ KeyFileKept(linux_remove_key(fs, activity_log, fresh, p).fs)
            /\ \A m \in StoreModels :
                  /\ KeyFileKept(set_model(fs, activity_log, p, m).fs)
                  /\ KeyFileKept(linux_set_model(fs, activity_log, fresh, p, m).fs)
                  /\ KeyFileKept(web_add_key(fs, activity_log, t, TRUE, p, m).fs)
                  /\ KeyFileKept(web_set_model(fs, activity_log, t, TRUE, p, m).fs)
            /\ KeyFileKept(web_remove_key(fs, activity_log, t, TRUE, p).fs)
            /\ KeyFileKept(reset_all(fs, activity_log, t, TRUE).fs)
            /\ ~FernetKeyOk(read_bytes(fs, MASTER_KEY_FILE)) =>
                  /\ \A cred \in StoreCreds :
                        /\ add_provider(fs, activity_log, fresh, p, Str(cred)).status = "raise"
                        /\ linux_add_key(fs, activity_log, fresh, p, Str(cred)).status = "raise"
                  /\ Has(load_keys(fs), p) =>
                        /\ show_key(fs, activity_log, fresh, p).status = "raise"
                        /\ linux_show_key(fs, activity_log, fresh, p).status = "raise"

(***************************************************************************)
(* C19 (StoreSpec).  Malformed store recovery: when keys.enc or            *)
(* config.json exists and is not valid JSON, every read of it gives the    *)
(* empty store without failing, and the next write (a put for keys.enc, a  *)
(* set model for config.json) succeeds and leaves a valid document.        *)
(***************************************************************************)
IsMalformed(f, name) == exists(f, name) /\ IsRaise(json_load(f[name].data))

C19_MalformedStoreRecovery ==
    \A p \in StorePids, fresh \in FreshKeys, t \in Times :
        /\ IsMalformed(fs, KEYS_FILE) =>
              /\ load_keys(fs) = EmptyDict
              /\ linux_load_keys(fs, fresh).ret = EmptyDict
              /\ \A cred \in StoreCreds :
                    LET put == add_provider(fs, activity_log, fresh, p, Str(cred))
                    IN put.status = "ok" =>
                          ~IsMalformed(put.fs, KEYS_FILE) /\ Has(load_keys(put.fs), p)
        /\ IsMalformed(fs, CONFIG_FILE) =>
              /\ IsDict(load_config(fs))
              /\ ~Truthy(Selected(fs))
              /\ \A m \in StoreModels :
                    /\ LET r == set_model(fs, activity_log, p, m)
                       IN r.status # "raise" /\ ~IsMalformed(r.fs, CONFIG_FILE)
                    /\ LET r == web_set_model(fs, activity_log, t, TRUE, p, m)
                       IN r.status # "raise" /\ ~IsMalformed(r.fs, CONFIG_FILE)

(***************************************************************************)
(* C20 (VaultSpec).  Masked view: for every stored credential, `show` of   *)
(* either command line succeeds and prints, for a credential longer than   *)
(* 12 characters, its first 8 characters, a marker and its last 4          *)
(* characters, and for a credential of 12 characters or fewer a marker     *)
(* holding no substring of it; what is printed is never the credential.    *)
(***************************************************************************)
RevealThreshold == 12

Masks(out, c) ==
    /\ out # c
    /\ IF Len(c) > RevealThreshold
       THEN /\ Len(out) > 8 + 4
            /\ Prefix(out, 8) = Prefix(c, 8)
            /\ Suffix(out, 4) = Suffix(c, 4)
       ELSE \A i \in 1..Len(c), j \in 1..Len(c) :
               i <= j => ~IsSubstr(SubSeq(c, i, j), out)

C20_MaskedView ==
    \A pid \in PROVIDERS, fresh \in FreshKeys :
        LET c == IF Has(load_keys(fs), pid) THEN Credential(fs, Get(load_keys(fs), pid))
                 ELSE Raise
        IN (~IsRaise(c) /\ Undecryptable(fs) = {}) =>
              /\ LET r == linux_show_key(fs, activity_log, fresh, pid)
                 IN r.status = "ok" /\ Masks(r.out, c.s)
              /\ LET r == show_key(fs, activity_log, fresh, pid)
                 IN r.status = "ok" /\ Masks(r.out, c.s)

(***************************************************************************)
(* The reader of the activity log, webui.py get_activity_logs, with the    *)
(* str methods it uses.  A line of the model is a line of the file without *)
(* its newline.                                                            *)
(***************************************************************************)
CharAt(s, i) == SubSeq(s, i, i)

\* ch in s
Contains(s, ch) == \E i \in 1..Len(s) : CharAt(s, i) = ch

\* s.find(ch) + 1: the position of the first ch, 0 when there is none
Find(s, ch) ==
    IF Contains(s, ch)
    THEN CHOOSE i \in 1..Len(s) :
             CharAt(s, i) = ch /\ \A j \in 1..(i - 1) : CharAt(s, j) # ch
    ELSE 0

\* s.strip()
Strip(s) ==
    LET keep == {i \in 1..Len(s) : CharAt(s, i) # " "}
    IN IF keep = {} THEN ""
       ELSE SubSeq(s, CHOOSE i \in keep : \A j \in keep : i <= j,
                      CHOOSE i \in keep : \A j \in keep : i >= j)

\* s.replace(ch, '')
RECURSIVE Remove(_, _)
Remove(s, ch) ==
    IF Len(s) = 0 THEN ""
    ELSE (IF CharAt(s, 1) = ch THEN "" ELSE CharAt(s, 1)) \o Remove(SubSeq(s, 2, Len(s)), ch)

\* s.split(ch, 1)
Split1(s, ch) ==
    IF Contains(s, ch)
    THEN <<SubSeq(s, 1, Find(s, ch) - 1), SubSeq(s, Find(s, ch) + 1, Len(s))>>
    ELSE <<s>>

LogEntry(time, message, level) == [time |-> time, message |-> message, level |-> level]

\* the body of the loop: the entries one line adds to logs (one or none)
parse_line(line) ==
    LET parts == Split1(Strip(line), "]")
    IN IF Len(parts) = 2
       THEN LET time_part == Remove(parts[1], "[")
                msg == Strip(parts[2])
                msg_parts == Split1(msg, "]")
            IN IF Contains(msg, "[") /\ Len(msg_parts) = 2
               THEN <<LogEntry(time_part, Strip(msg_parts[2]), Strip(msg_parts[1]))>>
               ELSE <<LogEntry(time_part, msg, "info")>>
       ELSE <<>>

\* f.readlines()[-limit:], for limit >= 0: -0 is 0, so [-0:] is every line
LastLines(lines, limit) ==
    IF limit = 0 \/ limit >= Len(lines) THEN lines
    ELSE SubSeq(lines, Len(lines) - limit + 1, Len(lines))

RECURSIVE ParseAll(_)
ParseAll(lines) ==
    IF Len(lines) = 0 THEN <<>> ELSE parse_line(Head(lines)) \o ParseAll(Tail(lines))

Reversed(q) == [i \in 1..Len(q) |-> q[Len(q) + 1 - i]]

get_activity_logs(log, limit) == Reversed(ParseAll(LastLines(log, limit)))

(***************************************************************************)
(* LogSpec: the activity log of the web console, appended to by            *)
(* log_activity and read by get_activity_logs.  The file may start with a  *)
(* line that log_activity did not write.                                   *)
(***************************************************************************)
LogTimes == {"2026-01-01 10:00:00", "2026-01-01 10:00:05"}
LogMessages == {<<"Added provider: OpenAI", "success">>, <<"Reset all settings", "info">>}
ForeignLine == "garbage"

LogInit ==
    /\ fs = [n \in FileNames |-> NoFile]
    /\ activity_log \in {<<>>, <<ForeignLine>>}
    /\ procs = <<>>

LogAppend ==
    \E t \in LogTimes, m \in LogMessages :
        /\ Len(activity_log) < MaxLines
        /\ activity_log' = log_activity(activity_log, t, m[1], m[2])
        /\ UNCHANGED <<fs, procs>>

ViewLogs ==
    \E limit \in 0..MaxLimit :
        /\ procs' = [limit |-> limit, logs |-> get_activity_logs(activity_log, limit)]
        /\ UNCHANGED <<fs, activity_log>>

LogNext == LogAppend \/ ViewLogs

LogSpec == LogInit /\ [][LogNext]_vars

(***************************************************************************)
(* C21 (LogSpec).  recent(limit): for every log and every limit >= 0,      *)
(* get_activity_logs(limit) returns at most limit entries, and they are    *)
(* the last entries of the log that parse, malformed lines left out,       *)
(* newest first.                                                           *)
(***************************************************************************)
LastOf(q, k) == SubSeq(q, Len(q) - k + 1, Len(q))

C21_Recent ==
    \A limit \in 0..MaxLimit :
        LET logs == get_activity_logs(activity_log, limit)
            parsed == ParseAll(activity_log)
        IN /\ Len(logs) <= limit
           /\ \E k \in 0..Len(parsed) : logs = Reversed(LastOf(parsed, k))

(***************************************************************************)
(* C22 (LogSpec).  Log round trip: after log_activity(message, level) at   *)
(* time t, the newest entry get_activity_logs returns has the time t, the  *)
(* message and the level that were appended (the level as given or in the  *)
(* upper case of the line).                                                *)
(***************************************************************************)
C22_LogRoundTrip ==
    \A t \in LogTimes, m \in LogMessages :
        LET logs == get_activity_logs(log_activity(activity_log, t, m[1], m[2]), 1)
        IN /\ Len(logs) = 1
           /\ logs[1].time = t
           /\ logs[1].message = m[1]
           /\ logs[1].level \in {m[2], Upper(m[2])}

(***************************************************************************)
(* C23 (VaultSpec).  The activity log is append-only: every handler of     *)
(* every front end, reset included, leaves the log either as it was or     *)
(* with exactly one line added after the lines it held, which are          *)
(* unchanged and in the same order.                                        *)
(***************************************************************************)
AppendOnly(after) ==
    \/ after = activity_log
    \/ /\ Len(after) = Len(activity_log) + 1
       /\ SubSeq(after, 1, Len(activity_log)) = activity_log

SameButLog(bad, good) == bad.fs = good.fs /\ bad.status = good.status

C24_LogFailureHarmless ==
    \A t \in Times, p \in PidInputs :
        /\ SameButLog(reset_all(fs, activity_log, t, FALSE),
                      reset_all(fs, activity_log, t, TRUE))
        /\ SameButLog(web_sync_to_openclaw(fs, activity_log, t, FALSE),
                      web_sync_to_openclaw(fs, activity_log, t, TRUE))
        /\ SameButLog(web_remove_key(fs, activity_log, t, FALSE, p),
                      web_remove_key(fs, activity_log, t, TRUE, p))
        /\ \A m \in ModelInputs :
              /\ SameButLog(web_add_key(fs, activity_log, t, FALSE, p, m),
                            web_add_key(fs, activity_log, t, TRUE, p, m))
              /\ SameButLog(web_set_model(fs, activity_log, t, FALSE, p, m),
                            web_set_model(fs, activity_log, t, TRUE, p, m))

(***************************************************************************)
(* C25 (VaultSpec).  A request that names a provider outside the catalog   *)
(* is reported to the caller as an error (an error message, a non-zero     *)
(* exit, an exception or a "no key" / "not configured" report) and leaves  *)
(* the vault and the selection store as they read before: for add, set,    *)
(* show and remove of every front end.                                     *)
(***************************************************************************)
Reported == {"unknown_provider", "exit", "raise", "no_key", "not_configured"}

StoresOf(f) == <<load_keys(f), load_config(f)>>

Refused(r) == r.status \in Reported /\ StoresOf(r.fs) = StoresOf(fs)

C25_UnknownProviderRefused ==
    \A p \in PidInputs \ PROVIDERS, t \in Times, fresh \in FreshKeys :
        /\ \A cred \in Creds :
              /\ Refused(add_provider(fs, activity_log, fresh, p, Str(cred)))
              /\ Refused(linux_add_key(fs, activity_log, fresh, p, Str(cred)))
        /\ \A m \in SyncModels :
              /\ Refused(web_add_key(fs, activity_log, t, TRUE, p, m))
              /\ Refused(set_model(fs, activity_log, p, m))
              /\ Refused(linux_set_model(fs, activity_log, fresh, p, m))
              /\ Refused(web_set_model(fs, activity_log, t, TRUE, p, m))
        /\ Refused(show_key(fs, activity_log, fresh, p))
        /\ Refused(linux_show_key(fs, activity_log, fresh, p))
        /\ Refused(remove_provider(fs, activity_log, p))
        /\ Refused(linux_remove_key(fs, activity_log, fresh, p))
        /\ Refused(web_remove_key(fs, activity_log, t, TRUE, p))

(***************************************************************************)
(* C26 (ConcSpec).  In every reachable state, the states between the steps *)
(* of the operation that creates or rewrites the file included, a          *)
(* .master.key or keys.enc that exists has owner-only permissions.         *)
(***************************************************************************)
C26_OwnerOnly ==
    \A n \in {MASTER_KEY_FILE, KEYS_FILE} : exists(fs, n) => fs[n].mode = "0600"

(***************************************************************************)
(* C27 (VaultSpec).  Put isolation: in every reachable state of the vault, *)
(* states with an entry that does not decrypt included, a put(id, cred)    *)
(* through any front end leaves every other identifier in keys.enc, with   *)
(* a value that yields what it yielded before.                             *)
(***************************************************************************)
OthersKept(after, id) ==
    \A q \in Keys(load_keys(fs)) \ {id} :
        /\ Has(load_keys(after), q)
        /\ Credential(after, Get(load_keys(after), q))
              = Credential(fs, Get(load_keys(fs), q))

C27_PutIsolation ==
    \A fresh \in FreshKeys, t \in Times :
        /\ \A id \in PROVIDERS, cred \in Creds :
              OthersKept(add_provider(fs, activity_log, fresh, id, Str(cred)).fs, id)
        /\ \A id \in LINUX_PROVIDERS, cred \in Creds :
              OthersKept(linux_add_key(fs, activity_log, fresh, id, Str(cred)).fs, id)
        /\ \A id \in WEB_PROVIDERS :
              OthersKept(web_add_key(fs, activity_log, t, TRUE, id, Str("")).fs, id)

(***************************************************************************)
(* C28 (VaultSpec).  Vault format: in every reachable state, every value   *)
(* in keys.enc is the base64 Fernet ciphertext of a credential under the   *)
(* key in .master.key.                                                     *)
(***************************************************************************)
C28_VaultFormat ==
    \A i \in 1..Len(load_keys(fs).o) :
        LET v == load_keys(fs).o[i].val
        IN \E cred \in Creds : v = B64Fernet(read_bytes(fs, MASTER_KEY_FILE), cred)

(***************************************************************************)
(* C29 (VaultSpec).  The two command lines are interchangeable on the      *)
(* vault: from every reachable vault and master key, an add or a remove of *)
(* a provider of both catalogs through clawapi.py and the same operation   *)
(* through clawapi-linux.py leave vaults with the same identifiers and the *)
(* same credential per identifier, and the entry one of them stores reads  *)
(* back through the other.                                                 *)
(***************************************************************************)
\* the identifiers of the vault, each with what its value decrypts to
VaultView(f) ==
    [q \in Keys(load_keys(f)) |-> Credential(f, Get(load_keys(f), q))]

C29_CliEquivalent ==
    \A id \in PROVIDERS \cap LINUX_PROVIDERS, fresh \in FreshKeys :
        /\ VaultView(remove_provider(fs, activity_log, id).fs)
              = VaultView(linux_remove_key(fs, activity_log, fresh, id).fs)
        /\ \A cred \in Creds :
              LET cli == add_provider(fs, activity_log, fresh, id, Str(cred))
                  linux == linux_add_key(fs, activity_log, fresh, id, Str(cred))
              IN /\ VaultView(cli.fs) = VaultView(linux.fs)
                 /\ GetOr(linux_load_keys(cli.fs, fresh).ret, id, None) = Str(cred)
                 /\ Credential(linux.fs, GetOr(load_keys(linux.fs), id, None)) = Str(cred)

(***************************************************************************)
(* C30 (StoreSpec).  After a provider removal of clawapi.py or of the web  *)
(* console has completed, from any state of keys.enc and config.json, the  *)
(* provider has no entry in the vault and none in selected_models.         *)
(***************************************************************************)
Gone(r, p) ==
    r.status # "raise" =>
        /\ ~Has(load_keys(r.fs), p)
        /\ IsDict(load_config(r.fs)) /\ ~Has(Selected(r.fs), p)

C30_RemovedEverywhere ==
    \A p \in StorePids, t \in Times :
        /\ Gone(remove_provider(fs, activity_log, p), p)
        /\ Gone(web_remove_key(fs, activity_log, t, TRUE, p), p)

(***************************************************************************)
(* C31 (SyncSpec).  In the web console, a sync run right after a           *)
(* successful set_model(provider, m) leaves the external config as the     *)
(* set_model left it, with model = defaultModel = m, whatever              *)
(* selected_models held before.                                            *)
(***************************************************************************)
C31_SyncAfterSet ==
    \A p \in SyncPids, m \in SyncModels, t \in Times :
        LET set == web_set_model(fs, activity_log, t, TRUE, p, m)
            sync == web_sync_to_openclaw(set.fs, set.log, t, TRUE)
        IN set.status = "ok" =>
              /\ sync.fs[OPENCLAW_CONFIG] = set.fs[OPENCLAW_CONFIG]
              /\ HasModel(ExtDoc(sync.fs), m)

(***************************************************************************)
(* C32 (SyncSpec).  set_model(provider, m) of clawapi.py and of the web    *)
(* console stores selected_models[provider] = m in config.json whether or  *)
(* not the external config exists; and when the external config exists and *)
(* parses, the operation ends with the external model and defaultModel     *)
(* equal to the selected_models[provider] value it has just stored.        *)
(***************************************************************************)
StoredAndPushed(before, after, p, m) ==
    /\ Has(Selected(after), p)
    /\ Get(Selected(after), p) = m
    /\ (exists(before, OPENCLAW_CONFIG) /\ IsDict(ExtDoc(before))) =>
           HasModel(ExtDoc(after), Get(Selected(after), p))

C32_SetModelStoresAndPushes ==
    \A p \in SyncPids, m \in SyncModels :
        /\ StoredAndPushed(fs, set_model(fs, activity_log, p, m).fs, p, m)
        /\ \A t \in Times, log_ok \in BOOLEAN :
              StoredAndPushed(fs, web_set_model(fs, activity_log, t, log_ok, p, m).fs, p, m)

\* after a set_model: a selection is stored and the external config carries it
C32_Witness ==
    /\ exists(fs, OPENCLAW_CONFIG)
    /\ IsDict(ExtDoc(fs))
    /\ \E p \in SyncPids :
          /\ Has(Selected(fs), p)
          /\ HasModel(ExtDoc(fs), Get(Selected(fs), p))
          /\ set_model(fs, activity_log, p, Get(Selected(fs), p)).fs = fs

(***************************************************************************)
(* C33 (SyncSpec).  set_model of clawapi-linux.py writes the external      *)
(* config only when the vault yields a credential for the provider; when   *)
(* it yields none, the operation ends with an error and the external       *)
(* config and the vault are as they were.                                  *)
(***************************************************************************)
Yields(f, fresh, provider) == Has(linux_load_keys(f, fresh).ret, Lower(provider))

C33_NoCredentialNoSync ==
    \A p \in LinuxPidInputs, m \in SyncModels \cup {None}, fresh \in FreshKeys :
        LET r == linux_set_model(fs, activity_log, fresh, p, m)
        IN /\ r.fs[OPENCLAW_CONFIG] # fs[OPENCLAW_CONFIG] => Yields(fs, fresh, p)
           /\ ~Yields(fs, fresh, p) =>
                 /\ r.status = "exit"
                 /\ r.fs[OPENCLAW_CONFIG] = fs[OPENCLAW_CONFIG]
                 /\ r.fs[KEYS_FILE] = fs[KEYS_FILE]

\* the external config is there, the vault holds one provider's credential
\* and not the other's: set_model writes for the first and exits for the second
C33_Witness ==
    /\ exists(fs, OPENCLAW_CONFIG)
    /\ \E p, q \in LINUX_PROVIDERS, m \in SyncModels, fresh \in FreshKeys :
          /\ Yields(fs, fresh, p)
          /\ ~Yields(fs, fresh, q)
          /\ linux_set_model(fs, activity_log, fresh, p, m).fs[OPENCLAW_CONFIG]
                 # fs[OPENCLAW_CONFIG]
          /\ linux_set_model(fs, activity_log, fresh, q, m).status = "exit"

====
